---- MODULE Spec2Model ----
(***************************************************************************)
(* Shopping-list ingredient consolidation of recipe-wizard                 *)
(* (backend/app/services/shopping_list_service.py).                        *)
(*                                                                         *)
(* Python strings are sequences of one-character strings, so that          *)
(* formatting, splitting and number parsing are computed, not assumed.     *)
(* An optional string (a nullable column) is <<>> for None and <<s>> for   *)
(* the string s.                                                           *)
(*                                                                         *)
(* Specifications:                                                         *)
(*   Spec             one user, one request at a time                      *)
(*   SpecTwoUsers     the same requests issued by two users                *)
(*   SpecCalculator   the calculator on the quantities of one item         *)
(*   SpecTransaction  one add/remove call statement by statement, any      *)
(*                    statement of which may raise                         *)
(*   SpecConcurrent   two requests of one user served at the same time     *)
(*   SpecRouter       the endpoints called with and without credentials     *)
(*   SpecJobs         the job endpoints and the background tasks            *)
(*   SpecJobsFair     the same, every background task keeps running         *)
(***************************************************************************)
EXTENDS Integers, Sequences, FiniteSets, TLC

(***************************************************************************)
(* Bounds of the model                                                     *)
(***************************************************************************)
\* highest breakdown row id the model lets the database hand out
MaxBreakdowns == 4
\* highest association row id the model lets the database hand out
MaxAssociations == 2
\* breakdowns of one item handed to the calculator
MaxQuantities == 3
\* times the calculator is called on one unchanged breakdown set
MaxCalls == 2
\* jobs created
MaxJobs == 2
\* add requests served while requests overlap
MaxAdds == 3

(***************************************************************************)
(* Python str primitives                                                   *)
(***************************************************************************)
NoneVal == <<>>
Some(s) == <<s>>

UpperCase == <<"A", "N", "T", "P">>
LowerCase == <<"a", "n", "t", "p">>

\* str.lower() on one character
LowerChar(c) ==
    IF \E i \in 1..Len(UpperCase) : UpperCase[i] = c
    THEN LowerCase[CHOOSE i \in 1..Len(UpperCase) : UpperCase[i] = c]
    ELSE c

\* str.lower()
StrLower(s) == [i \in 1..Len(s) |-> LowerChar(s[i])]

\* `w in s` for strings
StrContains(s, w) ==
    \E i \in 0..(Len(s) - Len(w)) : SubSeq(s, i + 1, i + Len(w)) = w

IsSpace(c) == c = " "

\* str.strip()
StrStrip(s) ==
    LET idx == {i \in 1..Len(s) : ~IsSpace(s[i])}
    IN  IF idx = {} THEN <<>>
        ELSE LET lo == CHOOSE i \in idx : \A j \in idx : i <= j
                 hi == CHOOSE i \in idx : \A j \in idx : i >= j
             IN  SubSeq(s, lo, hi)

\* str.rstrip(c) for a one-character argument
StrRStripChar(s, c) ==
    LET idx == {i \in 1..Len(s) : s[i] # c}
    IN  IF idx = {} THEN <<>>
        ELSE SubSeq(s, 1, CHOOSE i \in idx : \A j \in idx : i >= j)

\* str.split(): the maximal runs of non-whitespace characters, in order
RECURSIVE StrSplit(_)
StrSplit(s) ==
    LET t == StrStrip(s)
    IN  IF t = <<>> THEN <<>>
        ELSE LET sp == {i \in 1..Len(t) : IsSpace(t[i])}
             IN  IF sp = {} THEN <<t>>
                 ELSE LET k == CHOOSE i \in sp : \A j \in sp : i <= j
                      IN  <<SubSeq(t, 1, k - 1)>> \o StrSplit(SubSeq(t, k + 1, Len(t)))

\* str.split(c) for a one-character separator: empty fields are kept
RECURSIVE StrSplitOn(_, _)
StrSplitOn(s, c) ==
    LET at == {i \in 1..Len(s) : s[i] = c}
    IN  IF at = {} THEN <<s>>
        ELSE LET k == CHOOSE i \in at : \A j \in at : i <= j
             IN  <<SubSeq(s, 1, k - 1)>> \o StrSplitOn(SubSeq(s, k + 1, Len(s)), c)

\* sep.join(parts)
RECURSIVE StrJoin(_, _)
StrJoin(sep, parts) ==
    IF parts = <<>> THEN <<>>
    ELSE IF Len(parts) = 1 THEN parts[1]
    ELSE parts[1] \o sep \o StrJoin(sep, Tail(parts))

Digits == <<"0", "1", "2", "3", "4", "5", "6", "7", "8", "9">>
IsDigit(c) == \E i \in 1..10 : Digits[i] = c
DigitVal(c) == (CHOOSE i \in 1..10 : Digits[i] = c) - 1

RECURSIVE DigitsVal(_)
DigitsVal(s) ==
    IF s = <<>> THEN 0
    ELSE DigitsVal(SubSeq(s, 1, Len(s) - 1)) * 10 + DigitVal(s[Len(s)])

RECURSIVE Pow10(_)
Pow10(n) == IF n = 0 THEN 1 ELSE 10 * Pow10(n - 1)

\* str(n) for a natural number
RECURSIVE IntToStr(_)
IntToStr(n) ==
    IF n < 10 THEN <<Digits[n + 1]>>
    ELSE IntToStr(n \div 10) \o <<Digits[(n % 10) + 1]>>

\* float(s) for the unsigned decimal literals digits[.digits]; the value is
\* the exact rational num/den, every other token raises ValueError (ok = FALSE).
ParseFloat(s) ==
    LET parts == StrSplitOn(s, ".")
        allDigits(p) == \A i \in 1..Len(p) : IsDigit(p[i])
    IN  IF Len(parts) = 1 /\ parts[1] # <<>> /\ allDigits(parts[1])
        THEN [ok |-> TRUE, num |-> DigitsVal(parts[1]), den |-> 1]
        ELSE IF Len(parts) = 2 /\ Len(parts[1]) + Len(parts[2]) > 0
                /\ allDigits(parts[1]) /\ allDigits(parts[2])
        THEN [ok |-> TRUE,
              num |-> DigitsVal(parts[1]) * Pow10(Len(parts[2])) + DigitsVal(parts[2]),
              den |-> Pow10(Len(parts[2]))]
        ELSE [ok |-> FALSE, num |-> 0, den |-> 1]

\* f"{x:.2f}" for x = num/den >= 0 (round half to even on the exact value)
FormatFixed2(num, den) ==
    LET q == (num * 100) \div den
        r == (num * 100) % den
        h == IF 2 * r < den THEN q
             ELSE IF 2 * r > den THEN q + 1
             ELSE IF q % 2 = 0 THEN q ELSE q + 1
        frac == h % 100
    IN  IntToStr(h \div 100) \o <<".">> \o <<Digits[(frac \div 10) + 1], Digits[(frac % 10) + 1]>>

(***************************************************************************)
(* Ingredient display formatter and consolidation calculator               *)
(***************************************************************************)
FormatterTerms ==
    << <<"p","i","n","c","h">>, <<"t","o"," ","t","a","s","t","e">>,
       <<"h","a","n","d","f","u","l">>, <<"d","a","s","h">>,
       <<"s","p","l","a","s","h">>, <<"s","q","u","e","e","z","e">> >>

CalculatorTerms ==
    << <<"p","i","n","c","h">>, <<"t","o"," ","t","a","s","t","e">>,
       <<"h","a","n","d","f","u","l">>, <<"d","a","s","h">>,
       <<"s","p","l","a","s","h">> >>

\* any(word in s.lower() for word in words)
AnyTermIn(s, words) ==
    \E i \in 1..Len(words) : StrContains(StrLower(s), words[i])

\* `not unit`: None or the empty string
Falsy(opt) == opt = NoneVal \/ opt[1] = <<>>

\* a formatter that knows "N/A" in upper case only
FormatIngredientDisplay_UpperCaseOnly(amount, unit) ==
    IF Falsy(unit) \/ unit[1] = <<"N", "/", "A">>
    THEN amount
    ELSE StrStrip(amount \o <<" ">> \o unit[1])

\* _format_ingredient_display(amount, unit); unit is an optional string
FormatIngredientDisplay(amount, unit) ==
    IF Falsy(unit) \/ StrLower(unit[1]) = <<"n", "/", "a">>
    THEN IF AnyTermIn(amount, FormatterTerms) THEN amount ELSE amount
    ELSE StrStrip(amount \o <<" ">> \o unit[1])

\* f"{ingredient.amount} {ingredient.unit or ''}".strip()
MergedQuantity(amount, unit) ==
    StrStrip(amount \o <<" ">> \o (IF Falsy(unit) THEN <<>> ELSE unit[1]))

\* float(a) / float(b): ValueError or ZeroDivisionError gives ok = FALSE
ParseFraction(a, b) ==
    IF ~a.ok \/ ~b.ok \/ b.num = 0 THEN [ok |-> FALSE, num |-> 0, den |-> 1]
    ELSE [ok |-> TRUE, num |-> a.num * b.den, den |-> a.den * b.num]

\* the number of the leading token: a two-part fraction a/b or a float literal
ParseNumber(num_part) ==
    IF StrContains(num_part, <<"/">>)
    THEN IF Len(StrSplitOn(num_part, "/")) # 2 THEN [ok |-> FALSE, num |-> 0, den |-> 1]
         ELSE ParseFraction(ParseFloat(StrSplitOn(num_part, "/")[1]),
                            ParseFloat(StrSplitOn(num_part, "/")[2]))
    ELSE ParseFloat(num_part)

\* total_numeric = num for total_numeric += num
Accumulate_Overwrite(acc, x) ==
    IF ~x.ok THEN [acc EXCEPT !.has_numeric = FALSE]
    ELSE [acc EXCEPT !.num = x.num, !.den = x.den]

\* total_numeric += num, or has_numeric = False when the token did not parse
Accumulate(acc, x) ==
    IF ~x.ok THEN [acc EXCEPT !.has_numeric = FALSE]
    ELSE [acc EXCEPT !.num = acc.num * x.den + x.num * acc.den, !.den = acc.den * x.den]

\* the sum without the unit check of lines 195-199
ConsolidateTokens_AnyUnit(acc, num_part, unit_part) ==
    Accumulate([acc EXCEPT !.common_unit = IF @ = NoneVal THEN Some(unit_part) ELSE @],
               ParseNumber(num_part))

\* the unit check and the sum for one quantity split into number and unit;
\* common_unit is set before the number is parsed
ConsolidateTokens(acc, num_part, unit_part) ==
    IF acc.common_unit # NoneVal /\ acc.common_unit[1] # unit_part
    THEN [acc EXCEPT !.has_numeric = FALSE]
    ELSE Accumulate([acc EXCEPT !.common_unit = Some(unit_part)], ParseNumber(num_part))

\* One iteration of the loop of _calculate_consolidated_display over the
\* quantity q; acc = [num, den, has_numeric, common_unit].
ConsolidateStep(acc, q) ==
    IF q = <<>> \/ AnyTermIn(q, CalculatorTerms)
    THEN [acc EXCEPT !.has_numeric = FALSE]
    ELSE IF Len(StrSplit(q)) = 0 THEN acc
    ELSE ConsolidateTokens(acc, Head(StrSplit(q)), StrJoin(<<" ">>, Tail(StrSplit(q))))

RECURSIVE ConsolidateLoop(_, _)
ConsolidateLoop(acc, qs) ==
    IF qs = <<>> THEN acc
    ELSE ConsolidateLoop(ConsolidateStep(acc, Head(qs)), Tail(qs))

\* str(common_unit) inside the f-string
UnitText(common_unit) ==
    IF common_unit = NoneVal THEN <<"N", "o", "n", "e">> ELSE common_unit[1]

\* the return statement after the loop
ConsolidatedText(acc, qs) ==
    IF acc.has_numeric /\ Len(qs) > 1
    THEN IF acc.num % acc.den = 0
         THEN StrStrip(IntToStr(acc.num \div acc.den) \o <<" ">> \o UnitText(acc.common_unit))
         ELSE StrRStripChar(StrRStripChar(
                  StrStrip(FormatFixed2(acc.num, acc.den) \o <<" ">> \o UnitText(acc.common_unit)),
                  "0"), ".")
    ELSE StrJoin(<<" ", "+", " ">>, qs)

\* _calculate_consolidated_display, as a function of the quantities of
\* item.recipe_breakdowns in collection order
CalculateConsolidatedDisplay(qs) ==
    IF Len(qs) = 1 THEN qs[1]
    ELSE ConsolidatedText(ConsolidateLoop([num |-> 0, den |-> 1, has_numeric |-> TRUE,
                                           common_unit |-> NoneVal], qs), qs)

\* a calculator that keeps total_numeric, has_numeric and common_unit from
\* one call to the next
Locals_Kept(previous) == previous

\* total_numeric = 0, has_numeric = True, common_unit = None: the locals a call
\* starts from, whatever the call before it ended with
Locals(previous) ==
    [num |-> 0, den |-> 1, has_numeric |-> TRUE, common_unit |-> NoneVal]

\* the locals the call ends with; a single breakdown returns before they exist
LocalsAfter(previous, qs) ==
    IF Len(qs) = 1 THEN previous ELSE ConsolidateLoop(Locals(previous), qs)

\* the string the call returns, given the locals it ended with
ReturnedDisplay(acc, qs) ==
    IF Len(qs) = 1 THEN qs[1] ELSE ConsolidatedText(acc, qs)

(***************************************************************************)
(* The recipe subsystem (read-only here): recipes and their ingredients    *)
(***************************************************************************)
Users == {1}

Cups == <<"c", "u", "p", "s">>
Cup  == <<"c", "u", "p">>
NA   == <<"N", "/", "A">>

\* recipe id -> Recipe; ingredients in stored order, amounts and units as the
\* recipe_ingredients columns hold them
Recipes ==
    [r \in 1..5 |->
       CASE r = 1 -> [id |-> 1, title |-> "Bread", ingredients |->
                        << [id |-> 11, name |-> "flour", amount |-> <<"2">>,
                            unit |-> Some(Cups), category |-> "baking"] >>]
         [] r = 2 -> [id |-> 2, title |-> "Cake", ingredients |->
                        << [id |-> 21, name |-> "flour", amount |-> <<"1">>,
                            unit |-> Some(Cups), category |-> "baking"],
                           [id |-> 22, name |-> "eggs", amount |-> <<"2">>,
                            unit |-> Some(NA), category |-> "dairy"] >>]
         [] r = 3 -> [id |-> 3, title |-> "Soup", ingredients |->
                        << [id |-> 31, name |-> "salt", amount |-> <<"t","o"," ","t","a","s","t","e">>,
                            unit |-> NoneVal, category |-> "spices"] >>]
         [] r = 4 -> [id |-> 4, title |-> "Dough", ingredients |->
                        << [id |-> 41, name |-> "flour", amount |-> <<"1","/","2">>,
                            unit |-> Some(Cup), category |-> "baking"],
                           [id |-> 42, name |-> "flour", amount |-> <<"1","/","2">>,
                            unit |-> Some(Cup), category |-> "baking"] >>]
         [] r = 5 -> [id |-> 5, title |-> "Roux", ingredients |->
                        << [id |-> 51, name |-> "flour", amount |-> <<"3">>,
                            unit |-> Some(<<"t","b","s","p">>), category |-> "pantry"] >>] ]

RecipeIds == DOMAIN Recipes
\* a recipe id no recipe row has
MissingRecipeId == Cardinality(RecipeIds) + 1

(***************************************************************************)
(* Stored state: the four shopping-list tables and their id sequences      *)
(***************************************************************************)
VARIABLES
    shopping_lists,   \* rows [id, user_id, is_active], in insertion order
    items,            \* rows [id, shopping_list_id, ingredient_name, category,
                      \*       consolidated_display, is_checked]
    breakdowns,       \* rows [id, shopping_item_id, recipe_id,
                      \*       original_ingredient_id, recipe_title, quantity]
    associations,     \* rows [id, shopping_list_id, recipe_id]
    nextId,           \* [list, item, breakdown, association]: next serial id
    last,             \* the last call: operation, arguments and what it returned
    calc,             \* the calculator applied to the quantities of one item:
                      \* [ingredients, quantities, display]
    txn,              \* a call of add_recipe / remove_recipe executed statement by
                      \* statement in its own session
    reqs,             \* two requests in flight at once, each at its own position
    recipe_jobs,      \* rows [id, user_id, status, job_type, progress, recipe_id,
                      \*       error_message] of the recipe_jobs table; the id is
                      \*       the row's position
    active_jobs,      \* the keys of job_service.active_jobs
    tasks,            \* the asyncio task of each job: [pc, must_cancel]
    reply             \* what the last call of a job endpoint answered

jobVars == <<recipe_jobs, active_jobs, tasks, reply>>

listVars == <<shopping_lists, items, breakdowns, associations, nextId, last, calc, txn, reqs>>

vars == <<shopping_lists, items, breakdowns, associations, nextId, last, calc, txn, reqs,
          recipe_jobs, active_jobs, tasks, reply>>

\* the committed database as one value
Database ==
    [lists |-> shopping_lists, items |-> items, bds |-> breakdowns,
     assocs |-> associations, nextId |-> nextId]

\* .first() of a query result, as an optional: the first row in table order
First(rows) == IF rows = <<>> THEN NoneVal ELSE Some(rows[1])

SeqToSet(s) == {s[i] : i \in 1..Len(s)}

\* A Session: the rows the transaction sees in the database (committed or
\* flushed), the pending (added, not flushed) rows, the rows marked deleted
\* and the relationship collections already loaded on items of the identity map.
Begin(db) ==
    [lists |-> db.lists, items |-> db.items, bds |-> db.bds, assocs |-> db.assocs,
     nextId |-> db.nextId,
     newItems |-> <<>>, newBds |-> <<>>, newAssocs |-> <<>>,
     delItems |-> {}, delBds |-> {}, delAssocs |-> {},
     loaded |-> << >>]

\* Session.flush(): pending rows are inserted in the order they were added,
\* rows marked deleted are removed; an item deleted takes the breakdowns of
\* its loaded collection with it (cascade="all, delete-orphan")
Flush(s) ==
    LET cascaded == {b.id : b \in UNION {SeqToSet(s.loaded[i]) : i \in s.delItems \cap DOMAIN s.loaded}}
        gone     == s.delBds \cup cascaded
    IN  [s EXCEPT
           !.items = SelectSeq(s.items \o s.newItems, LAMBDA it : it.id \notin s.delItems),
           !.bds = SelectSeq(s.bds \o s.newBds, LAMBDA b : b.id \notin gone),
           !.assocs = SelectSeq(s.assocs \o s.newAssocs, LAMBDA a : a.id \notin s.delAssocs),
           !.newItems = <<>>, !.newBds = <<>>, !.newAssocs = <<>>,
           !.delItems = {}, !.delBds = {}, !.delAssocs = {}]

\* Session.commit(): flush, and the result is the committed database
Commit(s) ==
    LET f == Flush(s)
    IN  [lists |-> f.lists, items |-> f.items, bds |-> f.bds, assocs |-> f.assocs,
         nextId |-> f.nextId]

\* item.recipe_breakdowns: the loaded collection, or a lazy load of the rows
\* the database holds for the item (autoflush=False: pending rows are not flushed first)
RecipeBreakdowns(s, item_id) ==
    IF item_id \in DOMAIN s.loaded THEN s.loaded[item_id]
    ELSE SelectSeq(s.bds, LAMBDA b : b.shopping_item_id = item_id)

\* the session after item.recipe_breakdowns was read
WithLoaded(s, item_id) ==
    IF item_id \in DOMAIN s.loaded THEN s
    ELSE [s EXCEPT !.loaded = (item_id :> RecipeBreakdowns(s, item_id)) @@ @]

Quantities(bds) == [i \in 1..Len(bds) |-> bds[i].quantity]

SetDisplay(rows, item_id, d) ==
    [i \in 1..Len(rows) |->
        IF rows[i].id = item_id THEN [rows[i] EXCEPT !.consolidated_display = d] ELSE rows[i]]

(***************************************************************************)
(* List lifecycle                                                          *)
(***************************************************************************)
\* get_or_create_shopping_list: [db, list_id]; a created list is committed
GetOrCreateShoppingList(db, user_id) ==
    LET found == First(SelectSeq(db.lists, LAMBDA l : l.user_id = user_id /\ l.is_active))
    IN  IF found # NoneVal THEN [db |-> db, list_id |-> found[1].id]
        ELSE [db |-> [db EXCEPT
                        !.lists = Append(@, [id |-> db.nextId.list, user_id |-> user_id,
                                             is_active |-> TRUE]),
                        !.nextId.list = @ + 1],
              list_id |-> db.nextId.list]

\* lines 26-31 on their own: the rows the query for the user's active list matches
ActiveLists(db, user_id) ==
    SelectSeq(db.lists, LAMBDA l : l.user_id = user_id /\ l.is_active)

\* lines 34-41 on their own: a new active list row is inserted and committed
CreateShoppingList(db, user_id) ==
    [db |-> [db EXCEPT
               !.lists = Append(@, [id |-> db.nextId.list, user_id |-> user_id,
                                    is_active |-> TRUE]),
               !.nextId.list = @ + 1],
     list_id |-> db.nextId.list]

\* ShoppingListRecipeBreakdown.to_api_format
BreakdownToApi(b) ==
    [recipeId |-> IntToStr(b.recipe_id), recipeTitle |-> b.recipe_title, quantity |-> b.quantity]

\* ShoppingListItem.to_api_format
ItemToApi(db, it) ==
    LET bs == SelectSeq(db.bds, LAMBDA b : b.shopping_item_id = it.id)
    IN  [id |-> IntToStr(it.id), ingredientName |-> it.ingredient_name,
         category |-> it.category, consolidatedDisplay |-> it.consolidated_display,
         recipeBreakdown |-> [i \in 1..Len(bs) |-> BreakdownToApi(bs[i])],
         isChecked |-> it.is_checked]

\* _get_shopping_list_response, read after the commit expired every object
GetShoppingListResponse(db, list_id) ==
    LET its == SelectSeq(db.items, LAMBDA it : it.shopping_list_id = list_id)
    IN  [i \in 1..Len(its) |-> ItemToApi(db, its[i])]

(***************************************************************************)
(* Shopping list aggregator: add_recipe_to_shopping_list                   *)
(***************************************************************************)
\* line 121: the display recomputed from item.recipe_breakdowns, loaded in s
RecalculateDisplay(s, item_id) ==
    [s EXCEPT
       !.items = SetDisplay(@, item_id,
                   CalculateConsolidatedDisplay(Quantities(RecipeBreakdowns(s, item_id)))),
       !.newItems = SetDisplay(@, item_id,
                   CalculateConsolidatedDisplay(Quantities(RecipeBreakdowns(s, item_id))))]

\* _add_to_existing_item: the breakdown is added to the session with the
\* item's foreign key only; the display is recomputed from item.recipe_breakdowns
AddToExistingItem(s, item_id, recipe, ingredient) ==
    RecalculateDisplay(
        WithLoaded([s EXCEPT
                      !.newBds = Append(@, [id |-> s.nextId.breakdown,
                                            shopping_item_id |-> item_id,
                                            recipe_id |-> recipe.id,
                                            original_ingredient_id |-> ingredient.id,
                                            recipe_title |-> recipe.title,
                                            quantity |-> MergedQuantity(ingredient.amount,
                                                                        ingredient.unit)]),
                      !.nextId.breakdown = @ + 1],
                   item_id),
        item_id)

\* _create_new_shopping_item without the flush: the new item stays pending and
\* no later lookup of the same request finds it
CreateNewShoppingItem_NoFlush(s, list_id, recipe, ingredient) ==
    LET display == FormatIngredientDisplay(ingredient.amount, ingredient.unit)
        item == [id |-> s.nextId.item, shopping_list_id |-> list_id,
                 ingredient_name |-> ingredient.name, category |-> ingredient.category,
                 consolidated_display |-> display, is_checked |-> FALSE]
        breakdown == [id |-> s.nextId.breakdown, shopping_item_id |-> item.id,
                      recipe_id |-> recipe.id, original_ingredient_id |-> ingredient.id,
                      recipe_title |-> recipe.title, quantity |-> display]
    IN  [s EXCEPT !.newItems = Append(@, item), !.nextId.item = @ + 1,
                  !.newBds = Append(@, breakdown), !.nextId.breakdown = @ + 1]

\* _create_new_shopping_item: the item is added and flushed, then its first
\* breakdown is added (pending)
CreateNewShoppingItem(s, list_id, recipe, ingredient) ==
    LET consolidated_display == FormatIngredientDisplay(ingredient.amount, ingredient.unit)
        item == [id |-> s.nextId.item, shopping_list_id |-> list_id,
                 ingredient_name |-> ingredient.name, category |-> ingredient.category,
                 consolidated_display |-> consolidated_display, is_checked |-> FALSE]
        s1 == Flush([s EXCEPT !.newItems = Append(@, item), !.nextId.item = @ + 1])
        quantity_display == FormatIngredientDisplay(ingredient.amount, ingredient.unit)
        breakdown == [id |-> s1.nextId.breakdown, shopping_item_id |-> item.id,
                      recipe_id |-> recipe.id, original_ingredient_id |-> ingredient.id,
                      recipe_title |-> recipe.title, quantity |-> quantity_display]
    IN  [s1 EXCEPT !.newBds = Append(@, breakdown), !.nextId.breakdown = @ + 1]

\* _add_ingredient_to_shopping_list with a lookup that ignores the category
AddIngredientToShoppingList_NameOnly(s, list_id, recipe, ingredient) ==
    LET existing_item == First(SelectSeq(s.items, LAMBDA it :
                                 /\ it.shopping_list_id = list_id
                                 /\ it.ingredient_name = ingredient.name))
    IN  IF existing_item # NoneVal
        THEN AddToExistingItem(s, existing_item[1].id, recipe, ingredient)
        ELSE CreateNewShoppingItem(s, list_id, recipe, ingredient)

\* _add_ingredient_to_shopping_list: the lookup is a database query
AddIngredientToShoppingList(s, list_id, recipe, ingredient) ==
    LET existing_item == First(SelectSeq(s.items, LAMBDA it :
                                 /\ it.shopping_list_id = list_id
                                 /\ it.ingredient_name = ingredient.name
                                 /\ it.category = ingredient.category))
    IN  IF existing_item # NoneVal
        THEN AddToExistingItem(s, existing_item[1].id, recipe, ingredient)
        ELSE CreateNewShoppingItem(s, list_id, recipe, ingredient)

\* for ingredient in recipe.ingredients
RECURSIVE AddIngredients(_, _, _, _)
AddIngredients(s, list_id, recipe, ingredients) ==
    IF ingredients = <<>> THEN s
    ELSE AddIngredients(AddIngredientToShoppingList(s, list_id, recipe, Head(ingredients)),
                        list_id, recipe, Tail(ingredients))

\* the result of a call that committed db and returns the list view
Returned(db, list_id) ==
    [ok |-> TRUE, error |-> "", db |-> db, list_id |-> list_id,
     view |-> GetShoppingListResponse(db, list_id)]

Raised(db, list_id) ==
    [ok |-> FALSE, error |-> "ValueError", db |-> db, list_id |-> list_id, view |-> <<>>]

\* lines 62-67: the association row is added to the session
AddAssociation(s, list_id, recipe) ==
    [s EXCEPT !.newAssocs = Append(@, [id |-> s.nextId.association,
                                       shopping_list_id |-> list_id,
                                       recipe_id |-> recipe.id]),
              !.nextId.association = @ + 1]

\* lines 62-75: the association row, the ingredient loop, the commit
AddRecipeInSession(s, list_id, recipe) ==
    Commit(AddIngredients(AddAssociation(s, list_id, recipe),
                          list_id, recipe, recipe.ingredients))

AddRecipeToList(g, recipe) ==
    Returned(AddRecipeInSession(Begin(g.db), g.list_id, recipe), g.list_id)

\* the list looked up (and created) before the recipe is
AddRecipeToShoppingList_ListFirst(db, user_id, recipe_id) ==
    IF recipe_id \notin RecipeIds THEN Raised(GetOrCreateShoppingList(db, user_id).db, 0)
    ELSE AddRecipeToList(GetOrCreateShoppingList(db, user_id), Recipes[recipe_id])

\* add_recipe_to_shopping_list: [ok, error, db, list_id, view]
AddRecipeToShoppingList(db, user_id, recipe_id) ==
    IF recipe_id \notin RecipeIds THEN Raised(db, 0)
    ELSE AddRecipeToList(GetOrCreateShoppingList(db, user_id), Recipes[recipe_id])

(***************************************************************************)
(* Recipe removal: remove_recipe_from_shopping_list                        *)
(***************************************************************************)
\* lines 326-333 once item.recipe_breakdowns is loaded in s
KeepOrDeleteItem(s, item_id, breakdown) ==
    IF SelectSeq(RecipeBreakdowns(s, item_id), LAMBDA b : b.id # breakdown.id) = <<>>
    THEN [s EXCEPT !.delItems = @ \cup {item_id}]
    ELSE [s EXCEPT !.items = SetDisplay(@, item_id,
             CalculateConsolidatedDisplay(Quantities(RecipeBreakdowns(s, item_id))))]

\* the body of `for breakdown in recipe_breakdowns`
RemoveBreakdown(s, breakdown) ==
    KeepOrDeleteItem(WithLoaded([s EXCEPT !.delBds = @ \cup {breakdown.id}],
                                breakdown.shopping_item_id),
                     breakdown.shopping_item_id, breakdown)

\* the removal loop stopping after the first breakdown (.first() for .all())
RemoveBreakdowns_FirstOnly(s, bds) ==
    IF bds = <<>> THEN s ELSE RemoveBreakdown(s, Head(bds))

RECURSIVE RemoveBreakdowns(_, _)
RemoveBreakdowns(s, bds) ==
    IF bds = <<>> THEN s
    ELSE RemoveBreakdowns(RemoveBreakdown(s, Head(bds)), Tail(bds))

\* the query of lines 309-316: the recipe's breakdown rows on items of the list
RecipeBreakdownsInList(s, list_id, recipe_id) ==
    SelectSeq(s.bds, LAMBDA b :
        /\ b.recipe_id = recipe_id
        /\ \E i \in 1..Len(s.items) :
              s.items[i].id = b.shopping_item_id /\ s.items[i].shopping_list_id = list_id)

\* lines 318-337: the loop, the delete of the association row, the commit
RemoveInSession(s, recipe_association, recipe_breakdowns) ==
    Commit([RemoveBreakdowns(s, recipe_breakdowns) EXCEPT
               !.delAssocs = @ \cup {recipe_association.id}])

RemoveRecipeFromList(g, recipe_association, recipe_breakdowns) ==
    IF recipe_association = NoneVal
    THEN [removed |-> <<>>] @@ Raised(g.db, g.list_id)
    ELSE [removed |-> recipe_breakdowns]
         @@ Returned(RemoveInSession(Begin(g.db), recipe_association[1], recipe_breakdowns),
                     g.list_id)

\* the association looked up by list only (the recipe_id filter dropped)
RemoveRecipeInList_AnyRecipe(g, recipe_id) ==
    RemoveRecipeFromList(g,
        First(SelectSeq(g.db.assocs, LAMBDA a : a.shopping_list_id = g.list_id)),
        RecipeBreakdownsInList(g.db, g.list_id, recipe_id))

\* lines 295-316: the association row and the recipe's breakdown rows
RemoveRecipeInList(g, recipe_id) ==
    RemoveRecipeFromList(g,
        First(SelectSeq(g.db.assocs, LAMBDA a :
                  a.shopping_list_id = g.list_id /\ a.recipe_id = recipe_id)),
        RecipeBreakdownsInList(g.db, g.list_id, recipe_id))

\* remove_recipe_from_shopping_list: [ok, error, db, list_id, view, removed]
RemoveRecipeFromShoppingList(db, user_id, recipe_id) ==
    RemoveRecipeInList(GetOrCreateShoppingList(db, user_id), recipe_id)

(***************************************************************************)
(* clear_shopping_list, update_item_status, get_shopping_list              *)
(***************************************************************************)
\* the clear without the delete of the association rows
ClearShoppingList_KeepAssociations(db, user_id) ==
    LET g == GetOrCreateShoppingList(db, user_id)
        d == g.db
        inList(item_id) == \E i \in 1..Len(d.items) :
                              d.items[i].id = item_id /\ d.items[i].shopping_list_id = g.list_id
    IN  [ok |-> TRUE, list_id |-> g.list_id,
         db |-> [d EXCEPT
                   !.bds = SelectSeq(@, LAMBDA b : ~inList(b.shopping_item_id)),
                   !.items = SelectSeq(@, LAMBDA it : it.shopping_list_id # g.list_id)]]

\* clear_shopping_list: three bulk deletes (the first one through the join
\* with the items of the list), then commit; returns True
ClearShoppingList(db, user_id) ==
    LET g == GetOrCreateShoppingList(db, user_id)
        d == g.db
        inList(item_id) == \E i \in 1..Len(d.items) :
                              d.items[i].id = item_id /\ d.items[i].shopping_list_id = g.list_id
    IN  [ok |-> TRUE, list_id |-> g.list_id,
         db |-> [d EXCEPT
                   !.bds = SelectSeq(@, LAMBDA b : ~inList(b.shopping_item_id)),
                   !.items = SelectSeq(@, LAMBDA it : it.shopping_list_id # g.list_id),
                   !.assocs = SelectSeq(@, LAMBDA a : a.shopping_list_id # g.list_id)]]

\* the flag written to every item of the addressed item's list
UpdateItemStatus_WholeList(db, user_id, item_id, is_checked) ==
    LET ownedBy(list_id) == \E i \in 1..Len(db.lists) :
                               db.lists[i].id = list_id /\ db.lists[i].user_id = user_id
        item == First(SelectSeq(db.items, LAMBDA it : it.id = item_id /\ ownedBy(it.shopping_list_id)))
    IN  IF item = NoneVal
        THEN [ok |-> FALSE, error |-> "ValueError", db |-> db]
        ELSE [ok |-> TRUE, error |-> "",
              db |-> [db EXCEPT !.items = [i \in 1..Len(@) |->
                         IF @[i].shopping_list_id = item[1].shopping_list_id
                         THEN [@[i] EXCEPT !.is_checked = is_checked]
                         ELSE @[i]]]]

\* the item looked up by id alone (the owner filter dropped)
UpdateItemStatus_AnyOwner(db, user_id, item_id, is_checked) ==
    IF SelectSeq(db.items, LAMBDA it : it.id = item_id) = <<>>
    THEN [ok |-> FALSE, error |-> "ValueError", db |-> db]
    ELSE [ok |-> TRUE, error |-> "",
          db |-> [db EXCEPT !.items = [i \in 1..Len(@) |->
                     IF @[i].id = item_id THEN [@[i] EXCEPT !.is_checked = is_checked]
                     ELSE @[i]]]]

\* update_item_status: the item is looked up joined with its list's owner
UpdateItemStatus(db, user_id, item_id, is_checked) ==
    LET ownedBy(list_id) == \E i \in 1..Len(db.lists) :
                               db.lists[i].id = list_id /\ db.lists[i].user_id = user_id
        item == First(SelectSeq(db.items, LAMBDA it : it.id = item_id /\ ownedBy(it.shopping_list_id)))
    IN  IF item = NoneVal
        THEN [ok |-> FALSE, error |-> "ValueError", db |-> db]
        ELSE [ok |-> TRUE, error |-> "",
              db |-> [db EXCEPT !.items = [i \in 1..Len(@) |->
                         IF @[i].id = item_id THEN [@[i] EXCEPT !.is_checked = is_checked]
                         ELSE @[i]]]]

\* get_shopping_list
GetShoppingList(db, user_id) ==
    LET g == GetOrCreateShoppingList(db, user_id)
    IN  [db |-> g.db, list_id |-> g.list_id, view |-> GetShoppingListResponse(g.db, g.list_id)]

(***************************************************************************)
(* Optional authentication of the shopping-list endpoints.  A bearer token  *)
(* is what jwt.decode makes of it: whether signature and expiry verify,    *)
(* and the user_id and sub claims of its payload (each optional).          *)
(***************************************************************************)
\* the rows of the users table
Accounts ==
    { [id |-> 1, is_active |-> TRUE],
      [id |-> 2, is_active |-> TRUE],
      [id |-> 3, is_active |-> FALSE] }

\* the token create_access_token_for_user issues for the user with this id
TokenFor(id) ==
    Some([decodes |-> TRUE, user_id |-> Some(id), sub |-> Some("email")])

\* the Authorization headers a request is sent with: none (or not a bearer
\* token), a token that fails verification, a token without the user_id
\* claim, and tokens for user 1, the deactivated user 3 and a deleted user
Credentials ==
    { NoneVal,
      Some([decodes |-> FALSE, user_id |-> Some(1), sub |-> Some("email")]),
      Some([decodes |-> TRUE, user_id |-> NoneVal, sub |-> Some("email")]),
      TokenFor(1), TokenFor(3), TokenFor(4) }

\* AuthUtils.verify_token: the token data, or the 401 exception
VerifyToken(token) ==
    IF ~token.decodes THEN [ok |-> FALSE, user_id |-> 0]
    ELSE IF token.sub = NoneVal \/ token.user_id = NoneVal THEN [ok |-> FALSE, user_id |-> 0]
    ELSE [ok |-> TRUE, user_id |-> token.user_id[1]]

\* db.query(User).filter(User.id == user_id).first()
UserById(user_id) ==
    IF \E a \in Accounts : a.id = user_id
    THEN Some(CHOOSE a \in Accounts : a.id = user_id)
    ELSE NoneVal

\* an optional dependency that returns the user whether active or not
GetCurrentUserOptional_AnyUser(credentials) ==
    IF credentials = NoneVal THEN NoneVal
    ELSE IF ~VerifyToken(credentials[1]).ok THEN NoneVal
    ELSE UserById(VerifyToken(credentials[1]).user_id)

\* get_current_user_optional: the user, or None
GetCurrentUserOptional(credentials) ==
    IF credentials = NoneVal THEN NoneVal
    ELSE IF ~VerifyToken(credentials[1]).ok THEN NoneVal
    ELSE IF /\ UserById(VerifyToken(credentials[1]).user_id) # NoneVal
            /\ UserById(VerifyToken(credentials[1]).user_id)[1].is_active
         THEN UserById(VerifyToken(credentials[1]).user_id)
         ELSE NoneVal

\* the user id the endpoints fall back to
DefaultUserId == 1

\* user_id = current_user.id if current_user else 1
EndpointUserId(credentials) ==
    IF GetCurrentUserOptional(credentials) # NoneVal
    THEN GetCurrentUserOptional(credentials)[1].id
    ELSE DefaultUserId

(***************************************************************************)
(* The service as a state machine: one action per request                  *)
(***************************************************************************)
ItemIds == 1..MaxBreakdowns

NoCall ==
    [op |-> "none", credentials |-> NoneVal, user |-> 0, recipe |-> 0, item |-> 0, flag |-> FALSE, ok |-> TRUE,
     error |-> "", list_id |-> 0, view |-> <<>>, newBds |-> {}, removed |-> <<>>, wasEmpty |-> TRUE,
     newItems |-> {}, afterFirstAdd |-> FALSE]

\* afterFirstAdd: the call before this one was a successful add_recipe of the
\* same recipe by the same user to an empty list.
\* ListEmpty: the user's active list holds no item, breakdown or association row
ListEmpty(db, user_id) ==
    \A i \in 1..Len(db.lists) :
        (db.lists[i].user_id = user_id /\ db.lists[i].is_active) =>
            /\ \A j \in 1..Len(db.items) : db.items[j].shopping_list_id # db.lists[i].id
            /\ \A j \in 1..Len(db.assocs) : db.assocs[j].shopping_list_id # db.lists[i].id

Store(db) ==
    /\ shopping_lists' = db.lists
    /\ items' = db.items
    /\ breakdowns' = db.bds
    /\ associations' = db.assocs
    /\ nextId' = db.nextId

\* the calculator not applied
NoCalculation ==
    [ingredients |-> <<>>, quantities |-> <<>>, display |-> NoneVal, calls |-> 0,
     locals |-> [num |-> 0, den |-> 1, has_numeric |-> TRUE, common_unit |-> NoneVal]]

\* no statement-by-statement call in progress
NoTransaction ==
    [pc |-> "idle", op |-> "none", user |-> 0, recipe |-> 0, list_id |-> 0,
     sess |-> NoneVal, todo |-> <<>>, assoc |-> NoneVal, before |-> NoneVal,
     changed |-> FALSE, error |-> "", view |-> <<>>]

\* the worker slots that serve requests at the same time
Procs == {1, 2}

\* what a session has written and not yet committed
NoWrites == [items |-> <<>>, displays |-> {}, bds |-> <<>>, assocs |-> <<>>]

\* overlap: another add request was in flight while this one was
NoRequest ==
    [pc |-> "idle", op |-> "none", user |-> 0, recipe |-> 0, list_id |-> 0,
     overlap |-> FALSE, writes |-> NoWrites]

\* the tables as the migration creates them: empty, serial ids starting at 1
EmptyStore ==
    /\ shopping_lists = <<>>
    /\ items = <<>>
    /\ breakdowns = <<>>
    /\ associations = <<>>
    /\ nextId = [list |-> 1, item |-> 1, breakdown |-> 1, association |-> 1]
    /\ last = NoCall

\* no call of a job endpoint yet
NoReply == [op |-> "none", user |-> 0, job |-> 0, code |-> 0, success |-> FALSE, status |-> ""]

\* RecipeJobService.__init__ and the empty recipe_jobs table
NoJobs ==
    /\ recipe_jobs = <<>>
    /\ active_jobs = {}
    /\ tasks = <<>>
    /\ reply = NoReply

Init ==
    /\ EmptyStore
    /\ calc = NoCalculation
    /\ txn = NoTransaction
    /\ reqs = [p \in Procs |-> NoRequest]
    /\ NoJobs

AfterFirstAdd(u, r) ==
    last.op = "add" /\ last.ok /\ last.wasEmpty /\ last.user = u /\ last.recipe = r

\* POST /add-recipe
AddRecipe(credentials, r) ==
    \E u \in {EndpointUserId(credentials)} :
        /\ r \in RecipeIds =>
              /\ nextId.breakdown + Len(Recipes[r].ingredients) - 1 <= MaxBreakdowns
              /\ nextId.association <= MaxAssociations
        /\ \E res \in {AddRecipeToShoppingList(Database, u, r)} :
               /\ Store(res.db)
               /\ last' = [NoCall EXCEPT !.op = "add", !.credentials = credentials, !.user = u, !.recipe = r, !.ok = res.ok,
                              !.error = res.error,
                              !.list_id = res.list_id, !.view = res.view,
                              !.newBds = {b.id : b \in SeqToSet(res.db.bds)}
                                           \ {b.id : b \in SeqToSet(breakdowns)},
                              !.newItems = {it.id : it \in SeqToSet(res.db.items)}
                                             \ {it.id : it \in SeqToSet(items)},
                              !.wasEmpty = ListEmpty(Database, u),
                              !.afterFirstAdd = AfterFirstAdd(u, r)]
        /\ UNCHANGED <<calc, txn, reqs, jobVars>>

\* DELETE /recipes/{recipe_id}
RemoveRecipe(credentials, r) ==
    \E u \in {EndpointUserId(credentials)} :
        \E res \in {RemoveRecipeFromShoppingList(Database, u, r)} :
            /\ Store(res.db)
            /\ last' = [NoCall EXCEPT !.op = "remove", !.credentials = credentials, !.user = u, !.recipe = r, !.ok = res.ok,
                           !.error = res.error,
                           !.list_id = res.list_id, !.view = res.view, !.removed = res.removed,
                           !.wasEmpty = ListEmpty(Database, u),
                           !.afterFirstAdd = AfterFirstAdd(u, r)]
            /\ UNCHANGED <<calc, txn, reqs, jobVars>>

\* DELETE /clear
ClearList(credentials) ==
    \E u \in {EndpointUserId(credentials)} :
        \E res \in {ClearShoppingList(Database, u)} :
            /\ Store(res.db)
            /\ last' = [NoCall EXCEPT !.op = "clear", !.credentials = credentials, !.user = u, !.ok = res.ok,
                           !.list_id = res.list_id, !.wasEmpty = ListEmpty(Database, u)]
            /\ UNCHANGED <<calc, txn, reqs, jobVars>>

\* PUT /items/{item_id}
UpdateItem(credentials, item_id, flag) ==
    \E u \in {EndpointUserId(credentials)} :
        \E res \in {UpdateItemStatus(Database, u, item_id, flag)} :
            /\ Store(res.db)
            /\ last' = [NoCall EXCEPT !.op = "update", !.credentials = credentials, !.user = u, !.item = item_id,
                           !.flag = flag, !.ok = res.ok, !.error = res.error,
                           !.wasEmpty = ListEmpty(Database, u)]
            /\ UNCHANGED <<calc, txn, reqs, jobVars>>

\* GET /
GetList(credentials) ==
    \E u \in {EndpointUserId(credentials)} :
        \E res \in {GetShoppingList(Database, u)} :
            /\ Store(res.db)
            /\ last' = [NoCall EXCEPT !.op = "get", !.credentials = credentials, !.user = u, !.list_id = res.list_id,
                           !.view = res.view, !.wasEmpty = ListEmpty(Database, u)]
            /\ UNCHANGED <<calc, txn, reqs, jobVars>>

Next ==
    \/ \E u \in Users, r \in RecipeIds \cup {MissingRecipeId} : AddRecipe(TokenFor(u), r)
    \/ \E u \in Users, r \in RecipeIds : RemoveRecipe(TokenFor(u), r)
    \/ \E u \in Users : ClearList(TokenFor(u))
    \/ \E u \in Users, i \in ItemIds, f \in BOOLEAN : UpdateItem(TokenFor(u), i, f)
    \/ \E u \in Users : GetList(TokenFor(u))

Spec == Init /\ [][Next]_vars

\* The same requests issued by two users against one store (a smaller
\* catalog: one-ingredient recipes 1 and 3)
TwoUsers == {1, 2}
TwoUserRecipeIds == {1, 3}

NextTwoUsers ==
    \/ \E u \in TwoUsers, r \in TwoUserRecipeIds : AddRecipe(TokenFor(u), r)
    \/ \E u \in TwoUsers, r \in TwoUserRecipeIds : RemoveRecipe(TokenFor(u), r)
    \/ \E u \in TwoUsers : ClearList(TokenFor(u))
    \/ \E u \in TwoUsers, i \in ItemIds, f \in BOOLEAN : UpdateItem(TokenFor(u), i, f)
    \/ \E u \in TwoUsers : GetList(TokenFor(u))

SpecTwoUsers == Init /\ [][NextTwoUsers]_vars

\* The endpoints called with every kind of Authorization header (the smaller
\* catalog again)
NextRouter ==
    \/ \E c \in Credentials, r \in TwoUserRecipeIds : AddRecipe(c, r)
    \/ \E c \in Credentials, r \in TwoUserRecipeIds : RemoveRecipe(c, r)
    \/ \E c \in Credentials : ClearList(c)
    \/ \E c \in Credentials, i \in ItemIds, f \in BOOLEAN : UpdateItem(c, i, f)
    \/ \E c \in Credentials : GetList(c)

SpecRouter == Init /\ [][NextRouter]_vars

(***************************************************************************)
(* The calculator on its own: the breakdown quantities of one item are     *)
(* produced from ingredients as the aggregator produces them, then         *)
(* consolidated                                                            *)
(***************************************************************************)
\* the (amount, unit) pairs the ingredients of one item are drawn from
IngredientPool ==
    << [amount |-> <<"2">>, unit |-> Some(Cups)],
       [amount |-> <<"1">>, unit |-> Some(Cups)],
       [amount |-> <<"1","/","2">>, unit |-> Some(Cup)],
       [amount |-> <<"1">>, unit |-> Some(Cup)],
       [amount |-> <<"1","/","4">>, unit |-> Some(Cup)],
       [amount |-> <<"3">>, unit |-> Some(<<"t","b","s","p">>)],
       [amount |-> <<"t","o"," ","t","a","s","t","e">>, unit |-> NoneVal],
       [amount |-> <<"1">>, unit |-> Some(<<"p","i","n","c","h">>)],
       [amount |-> <<"1">>, unit |-> Some(<<"s","q","u","e","e","z","e">>)],
       [amount |-> <<"1","/","2">>, unit |-> NoneVal],
       [amount |-> <<"2">>, unit |-> NoneVal],
       [amount |-> <<"p","i","n","c","h">>, unit |-> Some(NA)],
       [amount |-> <<"2">>, unit |-> Some(<<"n","/","a">>)],
       [amount |-> <<"1">>, unit |-> Some(<<>>)],
       [amount |-> <<"1">>, unit |-> Some(<<"c","u","p"," ">>)] >>

InitCalculator ==
    /\ EmptyStore
    /\ calc \in {[NoCalculation EXCEPT
                      !.ingredients = [i \in 1..Len(f) |-> IngredientPool[f[i]]]] :
                     f \in UNION {[1..n -> DOMAIN IngredientPool] : n \in 1..MaxQuantities}}
    /\ txn = NoTransaction
    /\ reqs = [p \in Procs |-> NoRequest]
    /\ NoJobs

\* _create_new_shopping_item, lines 144-150: the item's first breakdown
\* stores the formatted quantity
FormatQuantity ==
    /\ calc.quantities = <<>>
    /\ calc' = [calc EXCEPT !.quantities =
                   <<FormatIngredientDisplay(calc.ingredients[1].amount,
                                             calc.ingredients[1].unit)>>]
    /\ UNCHANGED <<shopping_lists, items, breakdowns, associations, nextId, last, txn, reqs, jobVars>>

\* _add_to_existing_item, lines 110-118: a later breakdown of the item stores
\* amount and unit joined
MergeQuantity ==
    /\ calc.quantities # <<>>
    /\ Len(calc.quantities) < Len(calc.ingredients)
    /\ calc' = [calc EXCEPT !.quantities =
                   Append(@, MergedQuantity(calc.ingredients[Len(@) + 1].amount,
                                            calc.ingredients[Len(@) + 1].unit))]
    /\ UNCHANGED <<shopping_lists, items, breakdowns, associations, nextId, last, txn, reqs, jobVars>>

\* _calculate_consolidated_display over the item's breakdowns
Consolidate ==
    /\ Len(calc.quantities) = Len(calc.ingredients)
    /\ calc.calls < MaxCalls
    /\ \E acc \in {LocalsAfter(calc.locals, calc.quantities)} :
          calc' = [calc EXCEPT !.display = Some(ReturnedDisplay(acc, calc.quantities)),
                               !.locals = acc,
                               !.calls = @ + 1]
    /\ UNCHANGED <<shopping_lists, items, breakdowns, associations, nextId, last, txn, reqs, jobVars>>

NextCalculator ==
    \/ FormatQuantity
    \/ MergeQuantity
    \/ Consolidate

SpecCalculator == InitCalculator /\ [][NextCalculator]_vars

(***************************************************************************)
(* One call of add_recipe / remove_recipe executed statement by statement  *)
(* in its session, any statement of which may raise; other requests read   *)
(* the committed tables in between                                         *)
(***************************************************************************)
Finished == {"idle", "returned", "failed"}
Running == {"association", "ingredients", "breakdowns", "delete_association",
            "commit", "respond"}

\* add_recipe_to_shopping_list, lines 53-58: the recipe lookup and
\* get_or_create_shopping_list; the session then holds the list
TxnAddRecipe(u, r) ==
    /\ txn.pc \in Finished
    /\ r \in RecipeIds =>
          /\ nextId.breakdown + Len(Recipes[r].ingredients) - 1 <= MaxBreakdowns
          /\ nextId.association <= MaxAssociations
    /\ IF r \notin RecipeIds
       THEN /\ txn' = [NoTransaction EXCEPT !.pc = "failed", !.op = "add", !.user = u,
                           !.recipe = r, !.error = "ValueError", !.before = Database]
            /\ UNCHANGED <<shopping_lists, items, breakdowns, associations, nextId>>
       ELSE \E g \in {GetOrCreateShoppingList(Database, u)} :
                /\ Store(g.db)
                /\ txn' = [NoTransaction EXCEPT !.pc = "association", !.op = "add",
                               !.user = u, !.recipe = r, !.list_id = g.list_id,
                               !.sess = Begin(g.db), !.todo = Recipes[r].ingredients,
                               !.before = g.db]
    /\ UNCHANGED <<last, calc, reqs, jobVars>>

\* lines 62-67
TxnAddAssociation ==
    /\ txn.pc = "association"
    /\ txn' = [txn EXCEPT !.sess = AddAssociation(@, txn.list_id, Recipes[txn.recipe]),
                          !.changed = TRUE,
                          !.pc = IF txn.todo = <<>> THEN "commit" ELSE "ingredients"]
    /\ UNCHANGED <<shopping_lists, items, breakdowns, associations, nextId, last, calc, reqs, jobVars>>

\* lines 70-73: one iteration of the ingredient loop
TxnAddIngredient ==
    /\ txn.pc = "ingredients"
    /\ txn' = [txn EXCEPT !.sess = AddIngredientToShoppingList(@, txn.list_id,
                                       Recipes[txn.recipe], Head(txn.todo)),
                          !.todo = Tail(@),
                          !.pc = IF Tail(txn.todo) = <<>> THEN "commit" ELSE "ingredients"]
    /\ UNCHANGED <<shopping_lists, items, breakdowns, associations, nextId, last, calc, reqs, jobVars>>

\* the request of remove_recipe with its list g, the association row found
\* (or not) and the recipe's breakdown rows, lines 297-316
TxnRemoveInList(u, r, g, recipe_association, recipe_breakdowns) ==
    /\ Store(g.db)
    /\ IF recipe_association = NoneVal
       THEN txn' = [NoTransaction EXCEPT !.pc = "failed", !.op = "remove", !.user = u,
                       !.recipe = r, !.list_id = g.list_id, !.error = "ValueError",
                       !.before = g.db]
       ELSE txn' = [NoTransaction EXCEPT
                       !.pc = IF recipe_breakdowns = <<>> THEN "delete_association"
                              ELSE "breakdowns",
                       !.op = "remove", !.user = u, !.recipe = r, !.list_id = g.list_id,
                       !.sess = Begin(g.db), !.todo = recipe_breakdowns,
                       !.assoc = recipe_association, !.before = g.db]

\* remove_recipe_from_shopping_list, lines 295-316
TxnRemoveRecipe(u, r) ==
    /\ txn.pc \in Finished
    /\ \E g \in {GetOrCreateShoppingList(Database, u)} :
          TxnRemoveInList(u, r, g,
              First(SelectSeq(g.db.assocs, LAMBDA a :
                        a.shopping_list_id = g.list_id /\ a.recipe_id = r)),
              RecipeBreakdownsInList(g.db, g.list_id, r))
    /\ UNCHANGED <<last, calc, reqs, jobVars>>

\* lines 319-333: one iteration of the removal loop
TxnRemoveBreakdown ==
    /\ txn.pc = "breakdowns"
    /\ txn' = [txn EXCEPT !.sess = RemoveBreakdown(@, Head(txn.todo)),
                          !.todo = Tail(@),
                          !.changed = TRUE,
                          !.pc = IF Tail(txn.todo) = <<>> THEN "delete_association"
                                 ELSE "breakdowns"]
    /\ UNCHANGED <<shopping_lists, items, breakdowns, associations, nextId, last, calc, reqs, jobVars>>

\* line 336
TxnDeleteAssociation ==
    /\ txn.pc = "delete_association"
    /\ txn' = [txn EXCEPT !.sess.delAssocs = @ \cup {txn.assoc[1].id},
                          !.changed = TRUE,
                          !.pc = "commit"]
    /\ UNCHANGED <<shopping_lists, items, breakdowns, associations, nextId, last, calc, reqs, jobVars>>

\* lines 75 and 337: db.commit()
TxnCommit ==
    /\ txn.pc = "commit"
    /\ Store(Commit(txn.sess))
    /\ txn' = [txn EXCEPT !.pc = "respond", !.sess = NoneVal]
    /\ UNCHANGED <<last, calc, reqs, jobVars>>

\* lines 76 and 339: the list view is read back and returned
TxnRespond ==
    /\ txn.pc = "respond"
    /\ txn' = [txn EXCEPT !.pc = "returned",
                          !.view = GetShoppingListResponse(Database, txn.list_id)]
    /\ UNCHANGED <<shopping_lists, items, breakdowns, associations, nextId, last, calc, reqs, jobVars>>

\* the statement about to run raises: the exception leaves the service and
\* get_db rolls the session back and closes it
TxnRaise ==
    /\ txn.pc \in Running
    /\ txn' = [txn EXCEPT !.pc = "failed", !.error = "Exception", !.sess = NoneVal]
    /\ UNCHANGED <<shopping_lists, items, breakdowns, associations, nextId, last, calc, reqs, jobVars>>

NextTransaction ==
    \/ \E u \in Users, r \in RecipeIds \cup {MissingRecipeId} : TxnAddRecipe(u, r)
    \/ TxnAddAssociation
    \/ TxnAddIngredient
    \/ \E u \in Users, r \in RecipeIds : TxnRemoveRecipe(u, r)
    \/ TxnRemoveBreakdown
    \/ TxnDeleteAssociation
    \/ TxnCommit
    \/ TxnRespond
    \/ TxnRaise
    \/ \E u \in Users : GetList(TokenFor(u))

SpecTransaction == Init /\ [][NextTransaction]_vars

(***************************************************************************)
(* Two requests of one user served at the same time, each in its own       *)
(* session: the lookup of the active list, the creation of a list and the  *)
(* rest of the request are separate database round trips                   *)
(***************************************************************************)
ConcurrentRecipeIds == {1, 2}

\* the add requests that have arrived and not yet run their loop
WaitingAdds == {p \in Procs : reqs[p].op = "add" /\ reqs[p].pc \in {"query", "create", "body"}}

\* the add requests that have arrived and not yet committed
AddsInFlight == {p \in Procs : reqs[p].op = "add" /\ reqs[p].pc \notin {"idle", "done"}}

\* breakdown rows the waiting add requests will still insert
RECURSIVE PendingBreakdowns(_)
PendingBreakdowns(ps) ==
    IF ps = {} THEN 0
    ELSE LET p == CHOOSE q \in ps : TRUE
         IN  Len(Recipes[reqs[p].recipe].ingredients) + PendingBreakdowns(ps \ {p})

\* GET / arrives at worker p
ReqGet(p, u) ==
    /\ reqs[p].pc \in {"idle", "done"}
    /\ reqs' = [reqs EXCEPT ![p] = [NoRequest EXCEPT !.pc = "query", !.op = "get", !.user = u]]
    /\ UNCHANGED <<shopping_lists, items, breakdowns, associations, nextId, last, calc, txn, jobVars>>

\* POST /add-recipe arrives at worker p: the recipe is looked up (lines 53-55)
ReqAdd(p, u, r) ==
    /\ reqs[p].pc \in {"idle", "done"}
    /\ nextId.association + Cardinality(WaitingAdds \ {p}) <= MaxAdds
    /\ nextId.breakdown + PendingBreakdowns(WaitingAdds \ {p})
          + Len(Recipes[r].ingredients) - 1 <= MaxBreakdowns
    /\ reqs' = [q \in Procs |->
                  IF q = p
                  THEN [NoRequest EXCEPT !.pc = "query", !.op = "add", !.user = u,
                                         !.recipe = r, !.overlap = (AddsInFlight \ {p} # {})]
                  ELSE IF q \in AddsInFlight THEN [reqs[q] EXCEPT !.overlap = TRUE]
                  ELSE reqs[q]]
    /\ UNCHANGED <<shopping_lists, items, breakdowns, associations, nextId, last, calc, txn, jobVars>>

\* get_or_create_shopping_list, lines 26-31: the query for the active list;
\* .first() without ORDER BY returns any one of the matching rows
ReqQueryList(p) ==
    /\ reqs[p].pc = "query"
    /\ IF ActiveLists(Database, reqs[p].user) = <<>>
       THEN reqs' = [reqs EXCEPT ![p].pc = "create"]
       ELSE \E i \in 1..Len(ActiveLists(Database, reqs[p].user)) :
                reqs' = [reqs EXCEPT ![p].pc = "body",
                                     ![p].list_id = ActiveLists(Database, reqs[p].user)[i].id]
    /\ UNCHANGED <<shopping_lists, items, breakdowns, associations, nextId, last, calc, txn, jobVars>>

\* get_or_create_shopping_list, lines 33-41: no list was found, one is
\* inserted and committed
ReqCreateList(p) ==
    /\ reqs[p].pc = "create"
    /\ \E g \in {CreateShoppingList(Database, reqs[p].user)} :
          /\ Store(g.db)
          /\ reqs' = [reqs EXCEPT ![p].pc = "body", ![p].list_id = g.list_id]
    /\ UNCHANGED <<last, calc, txn, jobVars>>

\* what the session s, begun on db, has written: the rows it inserted
\* (flushed or pending) and the displays it changed on rows of db; an
\* attribute set to the value it was loaded with is not written
WriteSet(db, s) ==
    [items |-> SelectSeq(s.items \o s.newItems, LAMBDA it : it.id >= db.nextId.item),
     displays |-> {<<s.items[i].id, s.items[i].consolidated_display>> : i \in
                      {k \in 1..Len(s.items) :
                          \E o \in SeqToSet(db.items) :
                              /\ o.id = s.items[k].id
                              /\ o.consolidated_display # s.items[k].consolidated_display}},
     bds |-> SelectSeq(s.bds, LAMBDA b : b.id >= db.nextId.breakdown) \o s.newBds,
     assocs |-> SelectSeq(s.assocs, LAMBDA a : a.id >= db.nextId.association) \o s.newAssocs]

\* the display the write set w holds for the item row, or the row's own
WrittenDisplay(w, it) ==
    IF \E d \in w.displays : d[1] = it.id
    THEN (CHOOSE d \in w.displays : d[1] = it.id)[2]
    ELSE it.consolidated_display

\* a commit that recomputes every display from the breakdown rows stored
CommitOnto_Recalculated(db, w) ==
    [db EXCEPT
       !.items = [i \in 1..Len(db.items \o w.items) |->
                    [(db.items \o w.items)[i] EXCEPT !.consolidated_display =
                        CalculateConsolidatedDisplay(Quantities(
                            SelectSeq(db.bds \o w.bds, LAMBDA b :
                                b.shopping_item_id = (db.items \o w.items)[i].id)))]],
       !.bds = @ \o w.bds,
       !.assocs = @ \o w.assocs]

\* db.commit() of a session with write set w on the database as it is then:
\* the inserted rows become visible, the changed displays overwrite the
\* stored ones
CommitOnto(db, w) ==
    [db EXCEPT
       !.items = [i \in 1..Len(db.items) |->
                    [db.items[i] EXCEPT !.consolidated_display = WrittenDisplay(w, db.items[i])]]
                 \o w.items,
       !.bds = @ \o w.bds,
       !.assocs = @ \o w.assocs]

\* the rest of the request on the list it holds, up to the commit: lines
\* 62-73 for an add, run in a session that sees what is committed now (ids
\* come from the sequences, which are not transactional); the read of the
\* view for a get
ReqBody(p) ==
    /\ reqs[p].pc = "body"
    /\ IF reqs[p].op = "add"
       THEN \E s \in {AddIngredients(AddAssociation(Begin(Database), reqs[p].list_id,
                                                     Recipes[reqs[p].recipe]),
                                      reqs[p].list_id, Recipes[reqs[p].recipe],
                                      Recipes[reqs[p].recipe].ingredients)} :
               /\ nextId' = s.nextId
               /\ reqs' = [reqs EXCEPT ![p].pc = "commit",
                                       ![p].writes = WriteSet(Database, s)]
       ELSE /\ reqs' = [reqs EXCEPT ![p] = NoRequest]
            /\ UNCHANGED nextId
    /\ UNCHANGED <<shopping_lists, items, breakdowns, associations, last, calc, txn, jobVars>>

\* line 75: db.commit() of an add
ReqCommit(p) ==
    /\ reqs[p].pc = "commit"
    /\ Store(CommitOnto(Database, reqs[p].writes))
    /\ reqs' = [reqs EXCEPT ![p].pc = "done"]
    /\ UNCHANGED <<last, calc, txn, jobVars>>

NextConcurrent ==
    \/ \E p \in Procs, u \in Users : ReqGet(p, u)
    \/ \E p \in Procs, u \in Users, r \in ConcurrentRecipeIds : ReqAdd(p, u, r)
    \/ \E p \in Procs : ReqQueryList(p)
    \/ \E p \in Procs : ReqCreateList(p)
    \/ \E p \in Procs : ReqBody(p)
    \/ \E p \in Procs : ReqCommit(p)

SpecConcurrent == Init /\ [][NextConcurrent]_vars

(***************************************************************************)
(* The asynchronous recipe jobs (routers/jobs.py, services/job_service.py)  *)
(* in one server process.  The endpoints are coroutines without an await   *)
(* that suspends, so each runs as a whole; the background task of a job    *)
(* runs from its start to the await of the LLM call, and from the end of   *)
(* that call to its own end.  The event loop runs the first part of a      *)
(* task before it reads a request that names the job.                      *)
(***************************************************************************)
\* the authenticated users calling the job endpoints
JobUsers == {1, 2}

\* job ids (uuid4 strings in the code) in the order they are created
JobIds == 1..MaxJobs

\* Recipe.created_by_id of the catalog's recipes
RecipeOwners == [r \in RecipeIds |-> 1]

\* the recipes a modification job is requested for
ModifiedRecipeIds == {1, MissingRecipeId}

\* a RecipeJob that also carries an attribute func
JobAttributes_WithFunc ==
    {"id", "user_id", "status", "job_type", "prompt", "preferences", "original_recipe_id",
     "modification_prompt", "recipe_id", "error_message", "generation_metadata", "progress",
     "created_at", "started_at", "completed_at", "user", "recipe", "original_recipe",
     "to_dict", "_estimate_completion", "func"}

\* what an instance of RecipeJob has: its columns, relationships and methods
JobAttributes ==
    {"id", "user_id", "status", "job_type", "prompt", "preferences", "original_recipe_id",
     "modification_prompt", "recipe_id", "error_message", "generation_metadata", "progress",
     "created_at", "started_at", "completed_at", "user", "recipe", "original_recipe",
     "to_dict", "_estimate_completion"}

\* RecipeJob(id=job_id, user_id=user.id, status="pending", job_type=..., progress=0)
NewJob(id, user_id, job_type) ==
    [id |-> id, user_id |-> user_id, status |-> "pending", job_type |-> job_type,
     progress |-> 0, recipe_id |-> NoneVal, error_message |-> NoneVal]

\* asyncio.create_task(...): scheduled, not yet run, no cancellation requested
NewTask == [pc |-> "scheduled", must_cancel |-> FALSE]

\* the id recipe.id of the recipe a job saves
SavedRecipeId(rows) ==
    MissingRecipeId + Cardinality({i \in 1..Len(rows) : rows[i].recipe_id # NoneVal})

\* the finally clause of the task: _process_generation_job removes the job's
\* key when it is there; _process_modification_job evaluates
\* `job_id in self.active_jobs[job_id]`, which raises (KeyError without the
\* key, otherwise the membership test on a Task) before anything is removed
Finally(active, job) ==
    IF job.job_type = "generate" THEN active \ {job.id} ELSE active

\* the job row as the completion block commits it
Completed(job, recipe_id) ==
    [job EXCEPT !.status = "completed", !.recipe_id = Some(recipe_id), !.progress = 100]

\* the job row as the except clause commits it in a session of its own
Failed(job, message) ==
    [job EXCEPT !.status = "failed", !.error_message = Some(message), !.progress = 100]

\* create_generation_job / create_modification_job: insert and commit the
\* row, create the task, track it
StartJob(op, u, job_type) ==
    /\ recipe_jobs' = Append(recipe_jobs, NewJob(Len(recipe_jobs) + 1, u, job_type))
    /\ tasks' = Append(tasks, NewTask)
    /\ active_jobs' = active_jobs \cup {Len(recipe_jobs) + 1}
    /\ reply' = [NoReply EXCEPT !.op = op, !.user = u, !.job = Len(recipe_jobs) + 1,
                                !.code = 200, !.success = TRUE, !.status = "pending"]

\* POST /recipes/generate
CreateGenerationJob(u) ==
    /\ Len(recipe_jobs) < MaxJobs
    /\ StartJob("generate", u, "generate")
    /\ UNCHANGED listVars

\* POST /recipes/modify
CreateModificationJob(u, r) ==
    /\ Len(recipe_jobs) < MaxJobs
    /\ IF r \in RecipeIds /\ RecipeOwners[r] = u
       THEN StartJob("modify", u, "modify")
       ELSE /\ reply' = [NoReply EXCEPT !.op = "modify", !.user = u, !.code = 404]
            /\ UNCHANGED <<recipe_jobs, tasks, active_jobs>>
    /\ UNCHANGED listVars

\* GET /recipes/{job_id}/status
GetJobStatus(u, j) ==
    /\ j \in DOMAIN tasks => tasks[j].pc # "scheduled"
    /\ reply' = IF j \in DOMAIN recipe_jobs /\ recipe_jobs[j].user_id = u
                THEN [NoReply EXCEPT !.op = "status", !.user = u, !.job = j, !.code = 200,
                                     !.success = TRUE, !.status = recipe_jobs[j].status]
                ELSE [NoReply EXCEPT !.op = "status", !.user = u, !.job = j, !.code = 404]
    /\ UNCHANGED <<recipe_jobs, tasks, active_jobs>>
    /\ UNCHANGED listVars

\* DELETE /recipes/{job_id}: cancel_job.  After the task was cancelled and
\* untracked, the handler sets job.status and evaluates job.func.now(): an
\* attribute the instance lacks raises AttributeError, which the handler
\* turns into the 500 answer before db.commit() is reached
CancelJob(u, j) ==
    /\ j \in DOMAIN tasks => tasks[j].pc # "scheduled"
    /\ IF ~(j \in DOMAIN recipe_jobs /\ recipe_jobs[j].user_id = u)
       THEN /\ reply' = [NoReply EXCEPT !.op = "cancel", !.user = u, !.job = j, !.code = 404]
            /\ UNCHANGED <<recipe_jobs, tasks, active_jobs>>
       ELSE IF recipe_jobs[j].status \in {"completed", "failed"}
       THEN /\ reply' = [NoReply EXCEPT !.op = "cancel", !.user = u, !.job = j, !.code = 400,
                                        !.status = recipe_jobs[j].status]
            /\ UNCHANGED <<recipe_jobs, tasks, active_jobs>>
       ELSE /\ tasks' = IF j \in active_jobs /\ tasks[j].pc = "llm"
                        THEN [tasks EXCEPT ![j].must_cancel = TRUE]
                        ELSE tasks
            /\ active_jobs' = active_jobs \ {j}
            /\ IF "func" \in JobAttributes
               THEN /\ recipe_jobs' =
                          [recipe_jobs EXCEPT ![j].status = "cancelled",
                               ![j].error_message =
                                   Some("Job cancelled by user")]
                    /\ reply' = [NoReply EXCEPT !.op = "cancel", !.user = u, !.job = j,
                                     !.code = 200, !.success = TRUE, !.status = "cancelled"]
               ELSE /\ UNCHANGED recipe_jobs
                    /\ reply' = [NoReply EXCEPT !.op = "cancel", !.user = u, !.job = j,
                                     !.code = 500, !.status = recipe_jobs[j].status]
    /\ UNCHANGED listVars

\* the task from its start to the await of the LLM call: the job row is
\* fetched, set to processing with progress 10, then 30, each committed
TaskStart(j) ==
    /\ j \in DOMAIN tasks /\ tasks[j].pc = "scheduled"
    /\ recipe_jobs' = [recipe_jobs EXCEPT ![j].status = "processing", ![j].progress = 30]
    /\ tasks' = [tasks EXCEPT ![j].pc = "llm"]
    /\ UNCHANGED <<active_jobs, reply>>
    /\ UNCHANGED listVars

\* the LLM call returned: progress 70, then _save_recipe_to_database, which
\* returns the new recipe id or raises ValueError
LlmReturns(j) ==
    /\ j \in DOMAIN tasks /\ tasks[j].pc = "llm" /\ ~tasks[j].must_cancel
    /\ \E saved \in BOOLEAN :
          recipe_jobs' =
              [recipe_jobs EXCEPT ![j] =
                  IF saved THEN Completed(@, SavedRecipeId(recipe_jobs))
                  ELSE Failed(@, "Failed to save recipe")]
    /\ tasks' = [tasks EXCEPT ![j].pc = "done"]
    /\ active_jobs' = Finally(active_jobs, recipe_jobs[j])
    /\ UNCHANGED reply
    /\ UNCHANGED listVars

\* the LLM call raised: the except clause marks the job failed
LlmRaises(j) ==
    /\ j \in DOMAIN tasks /\ tasks[j].pc = "llm" /\ ~tasks[j].must_cancel
    /\ recipe_jobs' = [recipe_jobs EXCEPT ![j] = Failed(@, "LLM error")]
    /\ tasks' = [tasks EXCEPT ![j].pc = "done"]
    /\ active_jobs' = Finally(active_jobs, recipe_jobs[j])
    /\ UNCHANGED reply
    /\ UNCHANGED listVars

\* the cancelled task is resumed: CancelledError is raised at the await; it
\* is no Exception, so the except clause does not run and the row stays as
\* it was last committed; the finally clause runs
TaskCancelled(j) ==
    /\ j \in DOMAIN tasks /\ tasks[j].pc = "llm" /\ tasks[j].must_cancel
    /\ tasks' = [tasks EXCEPT ![j].pc = "cancelled"]
    /\ active_jobs' = Finally(active_jobs, recipe_jobs[j])
    /\ UNCHANGED <<recipe_jobs, reply>>
    /\ UNCHANGED listVars

\* what the event loop does for the task of job j
TaskStep(j) ==
    \/ TaskStart(j)
    \/ LlmReturns(j)
    \/ LlmRaises(j)
    \/ TaskCancelled(j)

NextJobs ==
    \/ \E u \in JobUsers : CreateGenerationJob(u)
    \/ \E u \in JobUsers, r \in ModifiedRecipeIds : CreateModificationJob(u, r)
    \/ \E u \in JobUsers, j \in JobIds : GetJobStatus(u, j)
    \/ \E u \in JobUsers, j \in JobIds : CancelJob(u, j)
    \/ \E j \in JobIds : TaskStart(j)
    \/ \E j \in JobIds : LlmReturns(j)
    \/ \E j \in JobIds : LlmRaises(j)
    \/ \E j \in JobIds : TaskCancelled(j)

SpecJobs == Init /\ [][NextJobs]_vars

\* the event loop keeps running every task, and every LLM call returns or raises
SpecJobsFair == Init /\ [][NextJobs]_vars /\ \A j \in JobIds : WF_vars(TaskStep(j))

(***************************************************************************)
(* Views of the committed state used by the properties                     *)
(***************************************************************************)
ItemRows == SeqToSet(items)
BreakdownRows == SeqToSet(breakdowns)
AssociationRows == SeqToSet(associations)

\* the breakdown rows of an item, in the order they were created
BreakdownsOf(item_id) == SelectSeq(breakdowns, LAMBDA b : b.shopping_item_id = item_id)

ItemsOfList(list_id) == {it \in ItemRows : it.shopping_list_id = list_id}

\* the recipe ingredient a breakdown row was created from
SourceIngredient(b) ==
    LET ings == Recipes[b.recipe_id].ingredients
    IN  ings[CHOOSE i \in 1..Len(ings) : ings[i].id = b.original_ingredient_id]

AddReturned == last.op = "add" /\ last.ok
RemoveReturned == last.op = "remove" /\ last.ok

\* C1: after add_recipe(user, R) succeeds, the returned view has, for every
\* ingredient of R, an item with the ingredient's exact name and category
\* that carries a breakdown entry referencing R with R's title.
C1_AddReturnsEveryIngredient ==
    AddReturned =>
        LET R == Recipes[last.recipe]
        IN  \A k \in 1..Len(R.ingredients) :
                \E i \in 1..Len(last.view) :
                    /\ last.view[i].ingredientName = R.ingredients[k].name
                    /\ last.view[i].category = R.ingredients[k].category
                    /\ \E j \in 1..Len(last.view[i].recipeBreakdown) :
                          /\ last.view[i].recipeBreakdown[j].recipeId = IntToStr(R.id)
                          /\ last.view[i].recipeBreakdown[j].recipeTitle = R.title

\* a two-ingredient recipe was added to a list that already held another
\* recipe's flour in another category
C1_Witness ==
    /\ AddReturned /\ last.recipe = 2 /\ ~last.wasEmpty
    /\ Len(last.view) = 3
    /\ \E i \in 1..Len(last.view) : last.view[i].category = "pantry"

\* C2: after add_recipe returns, every item that received a contribution
\* shows the consolidation of ALL its breakdown rows, the new one included;
\* a newly created item with one breakdown shows its ingredient's formatted quantity.
C2_AddRecomputesOverAllBreakdowns ==
    AddReturned =>
        \A it \in ItemRows :
            (\E b \in BreakdownRows : b.shopping_item_id = it.id /\ b.id \in last.newBds) =>
                /\ it.consolidated_display =
                       CalculateConsolidatedDisplay(Quantities(BreakdownsOf(it.id)))
                /\ (it.id \in last.newItems /\ Len(BreakdownsOf(it.id)) = 1) =>
                       LET ing == SourceIngredient(BreakdownsOf(it.id)[1])
                       IN  it.consolidated_display = FormatIngredientDisplay(ing.amount, ing.unit)

\* C3: after remove_recipe(user, R) returns, every item that still exists and
\* had a breakdown from R shows the consolidation of its remaining breakdowns only.
C3_RemoveRecomputesOverRemaining ==
    RemoveReturned =>
        \A it \in ItemRows :
            (\E k \in 1..Len(last.removed) : last.removed[k].shopping_item_id = it.id) =>
                it.consolidated_display =
                    CalculateConsolidatedDisplay(Quantities(BreakdownsOf(it.id)))

\* C4: in every committed state no shopping-list item exists with zero
\* breakdown rows.
C4_NoItemWithoutBreakdown ==
    \A it \in ItemRows : BreakdownsOf(it.id) # <<>>

\* C5: a shopping list holds at most one item for each (ingredient name,
\* category) pair.
C5_OneItemPerNameCategory ==
    \A a, b \in ItemRows :
        (/\ a.shopping_list_id = b.shopping_list_id
         /\ a.ingredient_name = b.ingredient_name
         /\ a.category = b.category) => a.id = b.id

\* one item took a second contribution from the same recipe, next to an item
\* of the same name in another category
C5_Witness ==
    \E it \in ItemRows :
        /\ \E b, c \in BreakdownRows :
              /\ b.shopping_item_id = it.id /\ c.shopping_item_id = it.id
              /\ b.id # c.id /\ b.recipe_id = c.recipe_id
              /\ b.original_ingredient_id # c.original_ingredient_id
        /\ \E o \in ItemRows :
              o.id # it.id /\ o.ingredient_name = it.ingredient_name /\ o.category # it.category

\* the recipes that have an association row in the list and an ingredient with
\* the given name and category
ContributingRecipes(list_id, name, category) ==
    {a.recipe_id : a \in {x \in AssociationRows :
        /\ x.shopping_list_id = list_id
        /\ \E k \in 1..Len(Recipes[x.recipe_id].ingredients) :
              /\ Recipes[x.recipe_id].ingredients[k].name = name
              /\ Recipes[x.recipe_id].ingredients[k].category = category}}

\* C6: for every item, the recipes referenced by its breakdown rows are exactly
\* the recipes associated with its list that have an ingredient with the
\* item's name and category.
C6_BreakdownsMatchContributingRecipes ==
    \A it \in ItemRows :
        {b.recipe_id : b \in SeqToSet(BreakdownsOf(it.id))}
            = ContributingRecipes(it.shopping_list_id, it.ingredient_name, it.category)

\* C7: add_recipe(user, R) on an empty list followed by remove_recipe(user, R)
\* leaves the list with zero items and zero breakdown rows; the list record remains.
C7_AddThenRemoveLeavesEmptyList ==
    (RemoveReturned /\ last.afterFirstAdd) =>
        /\ ItemsOfList(last.list_id) = {}
        /\ BreakdownRows = {}
        /\ last.view = <<>>
        /\ \E l \in SeqToSet(shopping_lists) : l.id = last.list_id /\ l.user_id = last.user

\* C8: two successive add_recipe calls with the same recipe (the first on an
\* empty list) leave two association rows for it, two breakdown rows per
\* ingredient on the ingredient's item, and the doubled amount as display.
C8_DuplicateAddDoubles ==
    (AddReturned /\ last.afterFirstAdd) =>
        LET R == Recipes[last.recipe]
        IN  /\ Cardinality({a \in AssociationRows :
                   a.shopping_list_id = last.list_id /\ a.recipe_id = R.id}) = 2
            /\ \A k \in 1..Len(R.ingredients) :
                  \E it \in ItemsOfList(last.list_id) :
                      /\ it.ingredient_name = R.ingredients[k].name
                      /\ it.category = R.ingredients[k].category
                      /\ Cardinality({b \in BreakdownRows :
                            /\ b.shopping_item_id = it.id
                            /\ b.original_ingredient_id = R.ingredients[k].id}) = 2
                      /\ it.consolidated_display =
                            CalculateConsolidatedDisplay(Quantities(BreakdownsOf(it.id)))
            /\ R.id = 1 => \A it \in ItemsOfList(last.list_id) :
                              it.consolidated_display = <<"4", " ", "c", "u", "p", "s">>

\* C9: after a successful remove_recipe(user, R) no breakdown row referencing R
\* remains on any item of the user's list.
C9_RemoveDeletesEveryBreakdownOfRecipe ==
    RemoveReturned =>
        \A b \in BreakdownRows :
            (\E it \in ItemsOfList(last.list_id) : it.id = b.shopping_item_id) =>
                b.recipe_id # last.recipe

\* the removed recipe had been added twice
C9_Witness ==
    /\ RemoveReturned
    /\ \E j, k \in 1..Len(last.removed) :
          /\ j # k
          /\ last.removed[j].original_ingredient_id = last.removed[k].original_ingredient_id

\* C10: every breakdown row created by add_recipe stores format(amount, unit)
\* of its source ingredient as quantity, for a new item and for a merge alike.
C10_BreakdownQuantityIsFormatted ==
    \A b \in BreakdownRows :
        b.quantity = FormatIngredientDisplay(SourceIngredient(b).amount, SourceIngredient(b).unit)

\* the user's active list holds an association row for the recipe
HasAssociation(user_id, recipe_id) ==
    \E a \in AssociationRows :
        /\ a.recipe_id = recipe_id
        /\ \E l \in SeqToSet(shopping_lists) :
              l.id = a.shopping_list_id /\ l.user_id = user_id /\ l.is_active

\* the item is on a list the user owns
OwnsItem(user_id, item_id) ==
    \E it \in ItemRows :
        /\ it.id = item_id
        /\ \E l \in SeqToSet(shopping_lists) :
              l.id = it.shopping_list_id /\ l.user_id = user_id

\* C12: add_recipe with a recipe id no recipe has fails with the not-found
\* error and leaves the stored state unchanged: no list is created and no
\* association, item or breakdown row is added.
C12_AddUnknownRecipeChangesNothing ==
    [][(last'.op = "add" /\ last'.recipe \notin RecipeIds) =>
          /\ ~last'.ok /\ last'.error = "ValueError"
          /\ UNCHANGED <<shopping_lists, items, breakdowns, associations>>]_vars

\* the unknown recipe was added by a user who has no list yet
C12_Witness ==
    /\ last.op = "add" /\ last.recipe \notin RecipeIds /\ ~last.ok
    /\ shopping_lists = <<>>

\* C13: remove_recipe for a recipe that has no association row in the user's
\* list fails with the not-found error and leaves every item, breakdown and
\* association row unchanged.
C13_RemoveAbsentRecipeChangesNothing ==
    [][(last'.op = "remove" /\ ~HasAssociation(last'.user, last'.recipe)) =>
          /\ ~last'.ok /\ last'.error = "ValueError"
          /\ UNCHANGED <<items, breakdowns, associations>>]_vars

\* a recipe that is not on the list was removed from a list that holds
\* another recipe
C13_Witness ==
    /\ last.op = "remove" /\ ~last.ok /\ ~last.wasEmpty
    /\ items # <<>> /\ associations # <<>>

C15_UpdateOnlyOwnItems ==
    [][(last'.op = "update") =>
          IF OwnsItem(last'.user, last'.item)
          THEN /\ last'.ok
               /\ \E i \in 1..Len(items') :
                      items'[i].id = last'.item /\ items'[i].is_checked = last'.flag
          ELSE /\ ~last'.ok /\ last'.error = "ValueError"
               /\ items' = items]_vars

\* a user addressed an item that exists on the other user's list
C15_Witness ==
    /\ last.op = "update" /\ ~last.ok
    /\ \E it \in ItemRows : it.id = last.item /\ ~OwnsItem(last.user, it.id)

\* C16: update_item_status changes only the checked flag of the addressed
\* item: every other attribute of that item, every other item, every
\* breakdown and every association row are unchanged.
C16_UpdateChangesOnlyTheFlag ==
    [][(last'.op = "update") =>
          /\ UNCHANGED <<breakdowns, associations>>
          /\ Len(items') = Len(items)
          /\ \A i \in 1..Len(items) :
                 IF items[i].id = last'.item
                 THEN items'[i] = [items[i] EXCEPT !.is_checked = items'[i].is_checked]
                 ELSE items'[i] = items[i]]_vars

\* an item was checked while another item, its own breakdown and an
\* association row were stored
C16_Witness ==
    /\ last.op = "update" /\ last.ok /\ last.flag
    /\ Len(items) >= 2 /\ breakdowns # <<>> /\ associations # <<>>
    /\ \E it \in ItemRows : it.id = last.item /\ it.is_checked

(***************************************************************************)
(* The calculator's contract in terms of the quantity strings              *)
(***************************************************************************)
\* the leading token and the unit remainder of a quantity
LeadingToken(q) == Head(StrSplit(q))
UnitRemainder(q) == StrJoin(<<" ">>, Tail(StrSplit(q)))

NonEmptyDigits(t) == t # <<>> /\ \A i \in 1..Len(t) : IsDigit(t[i])

\* a whole number or a simple fraction a/b with b # 0
WholeOrFraction(t) ==
    \/ NonEmptyDigits(t)
    \/ /\ Len(StrSplitOn(t, "/")) = 2
       /\ NonEmptyDigits(StrSplitOn(t, "/")[1])
       /\ NonEmptyDigits(StrSplitOn(t, "/")[2])
       /\ DigitsVal(StrSplitOn(t, "/")[2]) # 0

\* the value of such a token as the rational num/den
TokenValue(t) ==
    IF NonEmptyDigits(t) THEN [num |-> DigitsVal(t), den |-> 1]
    ELSE [num |-> DigitsVal(StrSplitOn(t, "/")[1]), den |-> DigitsVal(StrSplitOn(t, "/")[2])]

\* excluded from summation: empty or holding one of the descriptive terms
Descriptive(q) == q = <<>> \/ AnyTermIn(q, FormatterTerms)

NumericQuantity(q) ==
    ~Descriptive(q) /\ StrSplit(q) # <<>> /\ WholeOrFraction(LeadingToken(q))

AllNumeric(qs) == \A i \in 1..Len(qs) : NumericQuantity(qs[i])

SameUnit(qs) == \A i \in 1..Len(qs) : UnitRemainder(qs[i]) = UnitRemainder(qs[1])

RECURSIVE SumOf(_)
SumOf(qs) ==
    IF qs = <<>> THEN [num |-> 0, den |-> 1]
    ELSE [num |-> SumOf(Tail(qs)).num * TokenValue(LeadingToken(Head(qs))).den
                    + TokenValue(LeadingToken(Head(qs))).num * SumOf(Tail(qs)).den,
          den |-> SumOf(Tail(qs)).den * TokenValue(LeadingToken(Head(qs))).den]

\* the calculator was applied to two or more numeric quantities of one unit
SummedCase ==
    /\ calc.display # NoneVal /\ Len(calc.quantities) >= 2
    /\ AllNumeric(calc.quantities) /\ SameUnit(calc.quantities)

\* d shows the number x (to two decimals) followed by the unit
ShowsSum(d, x, unit) ==
    /\ StrSplit(d) # <<>>
    /\ ParseFloat(LeadingToken(d)).ok
    /\ \E p \in {ParseFloat(LeadingToken(d))} :
          /\ 200 * (p.num * x.den - x.num * p.den) <= p.den * x.den
          /\ 200 * (x.num * p.den - p.num * x.den) <= p.den * x.den
    /\ UnitRemainder(d) = unit

\* C18: two or more breakdowns that are all numeric (whole number or simple
\* fraction a/b) with an identical unit remainder consolidate to their sum
\* followed by that unit: ["2 cups", "1 cups"] gives "3 cups" and
\* ["1/2 cup", "1/2 cup"] gives "1 cup".
C18_SameUnitQuantitiesAreSummed ==
    /\ SummedCase =>
          ShowsSum(calc.display[1], SumOf(calc.quantities), UnitRemainder(calc.quantities[1]))
    /\ (calc.display # NoneVal /\ calc.quantities = << <<"2"," ">> \o Cups, <<"1"," ">> \o Cups >>)
          => calc.display[1] = <<"3"," ">> \o Cups
    /\ (calc.display # NoneVal
           /\ calc.quantities = << <<"1","/","2"," ">> \o Cup, <<"1","/","2"," ">> \o Cup >>)
          => calc.display[1] = <<"1"," ">> \o Cup

\* three fractions of one unit were summed to a whole number
C18_Witness ==
    /\ SummedCase /\ Len(calc.quantities) = 3
    /\ calc.quantities[1] = <<"1","/","2"," ">> \o Cup
    /\ calc.quantities[2] = <<"1","/","4"," ">> \o Cup
    /\ calc.quantities[3] = <<"1","/","4"," ">> \o Cup
    /\ calc.display[1] = <<"1"," ">> \o Cup

\* the digits after the decimal point of a number token (empty without a point)
Decimals(t) ==
    IF Len(StrSplitOn(t, ".")) = 2 THEN StrSplitOn(t, ".")[2] ELSE <<>>

\* C19: a total that is not a whole number is shown with at most two
\* decimals, trailing zeros and a trailing decimal point stripped, also when
\* a unit follows the number (["1/2 cup", "1 cup"] gives "1.5 cup", not
\* "1.50 cup"); a whole total is shown without a decimal point.
C19_TotalHasNoTrailingZeros ==
    SummedCase =>
        /\ StrSplit(calc.display[1]) # <<>>
        /\ IF SumOf(calc.quantities).num % SumOf(calc.quantities).den = 0
           THEN ~StrContains(LeadingToken(calc.display[1]), <<".">>)
           ELSE /\ Len(Decimals(LeadingToken(calc.display[1]))) \in {1, 2}
                /\ Decimals(LeadingToken(calc.display[1]))
                      [Len(Decimals(LeadingToken(calc.display[1])))] # "0"

\* the calculator was applied to two or more numeric quantities that do not
\* all have the same unit remainder
MixedUnitCase ==
    /\ calc.display # NoneVal /\ Len(calc.quantities) >= 2
    /\ AllNumeric(calc.quantities) /\ ~SameUnit(calc.quantities)

\* C20: two or more numeric breakdowns that do not all share the identical
\* unit remainder are not summed: the display is every quantity joined with
\* " + " in breakdown order (["2 cups", "3 tbsp"] gives "2 cups + 3 tbsp").
C20_MixedUnitsAreJoined ==
    MixedUnitCase => calc.display[1] = StrJoin(<<" ", "+", " ">>, calc.quantities)

\* cups and tablespoons met in one item
C20_Witness ==
    /\ MixedUnitCase
    /\ calc.quantities = << <<"2"," ">> \o Cups, <<"3"," ","t","b","s","p">> >>
    /\ calc.display[1] = <<"2"," ">> \o Cups \o <<" ","+"," ","3"," ","t","b","s","p">>

\* the user's list rows flagged active
ActiveListsOf(user_id) ==
    {i \in 1..Len(shopping_lists) :
        shopping_lists[i].user_id = user_id /\ shopping_lists[i].is_active}

\* C17: in every reachable state every user has at most one shopping list
\* flagged active, also when two requests of the same user that both find no
\* list interleave.
C17_OneActiveListPerUser ==
    \A u \in Users : Cardinality(ActiveListsOf(u)) <= 1

\* the item, breakdown and association rows of a database value
Tables(db) == <<db.items, db.bds, db.assocs>>

\* what the call in txn does to the store it started from when it runs as a whole
CallResult ==
    IF txn.op = "add" THEN AddRecipeToShoppingList(txn.before, txn.user, txn.recipe).db
    ELSE RemoveRecipeFromShoppingList(txn.before, txn.user, txn.recipe).db

\* C11: add_recipe and remove_recipe are all-or-nothing: after a call failed
\* with an exception once some of its item, breakdown or association changes
\* were made, none of them is in the committed state; and what another
\* request reads is never a part of one call's changes: a view read while a
\* call is under way shows the tables as they were before the call or with
\* all of its changes.
C11_AllOrNothing ==
    /\ []((txn.pc = "failed" /\ txn.changed) => Tables(Database) = Tables(txn.before))
    /\ [](txn.pc # "idle" => Tables(Database) \in {Tables(txn.before), Tables(CallResult)})
    /\ [][(last' # last /\ last'.op = "get" /\ txn.pc # "idle") =>
             last'.view \in {GetShoppingListResponse(txn.before, last'.list_id),
                             GetShoppingListResponse(CallResult, last'.list_id)}]_vars

\* the calculator was applied to two or more quantities of which one is empty
\* or holds a descriptive term
DescriptiveCase ==
    /\ calc.display # NoneVal /\ Len(calc.quantities) >= 2
    /\ \E i \in 1..Len(calc.quantities) : Descriptive(calc.quantities[i])

\* C21: when any breakdown of a multi-breakdown item is empty or contains one
\* of the six descriptive terms (pinch, to taste, handful, dash, splash,
\* squeeze), the consolidated display is all quantities joined with " + " in
\* breakdown order and never a sum: ["to taste", "1 pinch"] gives
\* "to taste + 1 pinch" and ["1 squeeze", "1 squeeze"] gives
\* "1 squeeze + 1 squeeze".
C21_DescriptiveQuantitiesAreJoined ==
    DescriptiveCase => calc.display[1] = StrJoin(<<" ", "+", " ">>, calc.quantities)

\* the formatter was applied to the first ingredient
Formatted == calc.quantities # <<>>

\* the unit is absent, empty or "N/A" in any letter case
NoUnit(unit) ==
    unit = NoneVal \/ unit[1] = <<>> \/ StrLower(unit[1]) = <<"n", "/", "a">>

\* C23: format(amount, unit) returns the amount unchanged when the unit is
\* absent, empty or "N/A" in any letter case, and otherwise amount, one space
\* and unit with surrounding whitespace trimmed: format("2", None) = "2",
\* format("1", "cup") = "1 cup", format("pinch", "N/A") = "pinch".
C23_FormatDropsAbsentUnit ==
    /\ Formatted =>
          calc.quantities[1] =
              IF NoUnit(calc.ingredients[1].unit)
              THEN calc.ingredients[1].amount
              ELSE StrStrip(calc.ingredients[1].amount \o <<" ">> \o calc.ingredients[1].unit[1])
    /\ (Formatted /\ calc.ingredients[1] = [amount |-> <<"2">>, unit |-> NoneVal])
          => calc.quantities[1] = <<"2">>
    /\ (Formatted /\ calc.ingredients[1] = [amount |-> <<"1">>, unit |-> Some(Cup)])
          => calc.quantities[1] = <<"1", " ">> \o Cup
    /\ (Formatted /\ calc.ingredients[1] = [amount |-> <<"p","i","n","c","h">>, unit |-> Some(NA)])
          => calc.quantities[1] = <<"p","i","n","c","h">>

\* "2" with unit "n/a" was formatted to "2"
C23_Witness ==
    /\ Formatted
    /\ calc.ingredients[1] = [amount |-> <<"2">>, unit |-> Some(<<"n","/","a">>)]
    /\ calc.quantities[1] = <<"2">>

C29_RemoveLeavesNoAssociation ==
    RemoveReturned => ~HasAssociation(last.user, last.recipe)

\* the credentials name an existing, active user through a token that verifies
ResolvesToActiveUser(credentials) ==
    /\ credentials # NoneVal
    /\ credentials[1].decodes
    /\ credentials[1].user_id # NoneVal /\ credentials[1].sub # NoneVal
    /\ \E a \in Accounts : a.id = credentials[1].user_id[1] /\ a.is_active

\* the step is the call `call` made by user 1: the store it leaves and the
\* response it gives are those of the service called for user id 1
SameAsUserOne(call) ==
    CASE call.op = "add" ->
           \E res \in {AddRecipeToShoppingList(Database, 1, call.recipe)} :
               /\ Database' = res.db /\ call.ok = res.ok /\ call.error = res.error
               /\ call.list_id = res.list_id /\ call.view = res.view
      [] call.op = "remove" ->
           \E res \in {RemoveRecipeFromShoppingList(Database, 1, call.recipe)} :
               /\ Database' = res.db /\ call.ok = res.ok /\ call.error = res.error
               /\ call.list_id = res.list_id /\ call.view = res.view
      [] call.op = "clear" ->
           \E res \in {ClearShoppingList(Database, 1)} :
               /\ Database' = res.db /\ call.ok = res.ok /\ call.list_id = res.list_id
      [] call.op = "update" ->
           \E res \in {UpdateItemStatus(Database, 1, call.item, call.flag)} :
               /\ Database' = res.db /\ call.ok = res.ok /\ call.error = res.error
      [] call.op = "get" ->
           \E res \in {GetShoppingList(Database, 1)} :
               /\ Database' = res.db /\ call.list_id = res.list_id /\ call.view = res.view

\* C24: a shopping-list endpoint (get, add recipe, update item, clear, remove
\* recipe) called without credentials, or with credentials that do not
\* resolve to an active user, does not fail for lack of authentication: it
\* reads and modifies the list of the default user id 1, exactly as the same
\* call authenticated as user 1 would.
C24_UnauthenticatedActsAsUserOne ==
    [][(last' # last /\ ~ResolvesToActiveUser(last'.credentials)) =>
          /\ last'.user = 1
          /\ SameAsUserOne(last')]_vars

\* a request carrying the token of the deactivated user removed a recipe from
\* the list of user 1 and left another recipe on it
C24_Witness ==
    /\ last.op = "remove" /\ last.ok /\ last.credentials = TokenFor(3)
    /\ last.user = 1
    /\ \E l \in SeqToSet(shopping_lists) : l.user_id = 1 /\ l.id = last.list_id
    /\ associations # <<>>

\* the stored statuses after which a job is over
TerminalStatuses == {"completed", "failed", "cancelled"}

\* the step is a call of cancel_job by the owner of a job whose stored status
\* is pending or processing
CancelOfRunningJob ==
    /\ reply' # reply /\ reply'.op = "cancel"
    /\ reply'.job \in DOMAIN recipe_jobs
    /\ recipe_jobs[reply'.job].user_id = reply'.user
    /\ recipe_jobs[reply'.job].status \in {"pending", "processing"}

\* C25: cancel_job on a job owned by the caller whose status is pending or
\* processing succeeds: it reports success, the job's stored status becomes
\* "cancelled" with error message "Job cancelled by user", and the job's
\* background task is no longer tracked as active.
C25_CancelSucceeds ==
    [][CancelOfRunningJob =>
          /\ reply'.success
          /\ recipe_jobs'[reply'.job].status = "cancelled"
          /\ recipe_jobs'[reply'.job].error_message = Some("Job cancelled by user")
          /\ reply'.job \notin active_jobs']_vars

AllowedMoves ==
    { <<"pending", "processing">>, <<"processing", "completed">>, <<"processing", "failed">> }

ListOfBreakdown(b) ==
    {it.shopping_list_id : it \in {x \in ItemRows : x.id = b.shopping_item_id}}

\* C27: when two add_recipe calls of the same user interleave and both
\* recipes contain an ingredient with the same name and category that is not
\* yet on the list, the committed list still holds a single item for that
\* (name, category) with both breakdown rows, not two separate items.
C27_InterleavedAddsShareTheItem ==
    \A b, c \in BreakdownRows :
        (/\ ListOfBreakdown(b) = ListOfBreakdown(c)
         /\ SourceIngredient(b).name = SourceIngredient(c).name
         /\ SourceIngredient(b).category = SourceIngredient(c).category)
            => b.shopping_item_id = c.shopping_item_id

\* the items that were on the list before the request with write set w and
\* took a breakdown row from it
MergedItems(w) ==
    {w.bds[i].shopping_item_id : i \in 1..Len(w.bds)} \ {w.items[i].id : i \in 1..Len(w.items)}

\* the quantities of the item's stored breakdown rows, those with an id in
\* `without` left out
QuantitiesWithout(item_id, without) ==
    Quantities(SelectSeq(breakdowns, LAMBDA b : b.shopping_item_id = item_id /\ b.id \notin without))

\* the ids of the breakdown rows the write set w adds to the item
RowsFor(w, item_id) ==
    {w.bds[i].id : i \in {k \in 1..Len(w.bds) : w.bds[k].shopping_item_id = item_id}}

====
